---- MODULE Spec2Model ----
(***************************************************************************)
(* Model of scripts/validate-devcontainers.py: the rule loader, the        *)
(* deprecated-pattern flattener and matcher, the three per-kind            *)
(* validators and the driver main() with its three summary counters.       *)
(*                                                                         *)
(* Text is modelled as a sequence of tokens (a token is an atomic piece of *)
(* text); Python's `sub in s` on strings is contiguous-subsequence search  *)
(* over tokens.  The severity markers are the three-token texts            *)
(* "[" "ERROR" "]" and "[" "WARNING" "]".                                  *)
(***************************************************************************)
EXTENDS Integers, Sequences, FiniteSets, TLC

VARIABLES
    pc,               \* position of main(): load, discover, the three loops, summary, done, crashed
    rules_file,       \* .framework-intelligence.json on disk: [status, doc]
    intelligence,     \* main's `intelligence`
    config_files,     \* main's `config_files`: the sorted path lists per kind
    idx,              \* number of files of the current loop already taken
    total_errors, total_warnings, total_validated,
    devcontainer_file,\* the file the devcontainer loop is at, with what is on disk
    is_valid,         \* locals of the devcontainer loop
    config,
    raw_content,
    structure_errors,
    deprecated_errors,
    all_errors,
    errors,           \* local `errors` of the Tailwind and ESLint loops
    all_deprecated,   \* local of check_deprecated_patterns
    exit_status       \* -1 while running, else the process exit status

vars == <<pc, rules_file, intelligence, config_files, idx, total_errors,
          total_warnings, total_validated, devcontainer_file, is_valid, config, raw_content,
          structure_errors, deprecated_errors, all_errors, errors,
          all_deprecated, exit_status>>

(***************************************************************************)
(* Bounds of the model                                                     *)
(***************************************************************************)
MaxDevFiles == 2
MaxTailwindFiles == 1
MaxImageLen == 2
MaxTailwindLen == 2
MaxDepth == 3
MaxEntries == 1
MaxRules == 2

(***************************************************************************)
(* Python / JSON values as json.load produces them                         *)
(***************************************************************************)
JNull == [t |-> "null"]
JBool(b) == [t |-> "bool", b |-> b]
JNum(n) == [t |-> "num", n |-> n]
JStr(s) == [t |-> "str", s |-> s]
JList(items) == [t |-> "list", items |-> items]
\* a dict keeps insertion order: a sequence of [k, v] pairs with distinct keys
JDict(kv) == [t |-> "dict", kv |-> kv]

EmptyDict == JDict(<<>>)
KV(k, v) == [k |-> k, v |-> v]

HasKey(d, key) == \E i \in 1..Len(d.kv) : d.kv[i].k = key
Lookup(d, key) == d.kv[CHOOSE i \in 1..Len(d.kv) : d.kv[i].k = key].v
\* dict.get(key, default)
Get(d, key, default) == IF HasKey(d, key) THEN Lookup(d, key) ELSE default

\* Python truthiness (`not x`, `if x:`)
Truthy(v) ==
    CASE v.t = "null" -> FALSE
      [] v.t = "bool" -> v.b
      [] v.t = "num"  -> v.n # 0
      [] v.t = "str"  -> Len(v.s) > 0
      [] v.t = "list" -> Len(v.items) > 0
      [] v.t = "dict" -> Len(v.kv) > 0

\* `sub in s` for two strings
Contains(s, sub) ==
    \E i \in 1..(Len(s) - Len(sub) + 1) :
        \A j \in 1..Len(sub) : s[i + j - 1] = sub[j]

Whitespace == {" ", "\t", "\n"}
\* `not s.strip()`: the string is empty or all whitespace
StripIsEmpty(s) == \A i \in 1..Len(s) : s[i] \in Whitespace

\* `key in c` for a string key: defined on dict, list and str; TypeError otherwise
InRaises(c) == c.t \in {"null", "bool", "num"}
PyIn(key, c) ==
    CASE c.t = "dict" -> HasKey(c, key)
      [] c.t = "list" -> \E i \in 1..Len(c.items) : c.items[i] = JStr(key)
      [] c.t = "str"  -> Contains(c.s, key)
      [] OTHER        -> FALSE

\* f"{v}" of a value
PyStr(v) ==
    CASE v.t = "str"  -> v.s
      [] v.t = "null" -> <<"None">>
      [] v.t = "bool" -> IF v.b THEN <<"True">> ELSE <<"False">>
      [] v.t = "num"  -> <<"<num>">>
      [] OTHER        -> <<"<repr>">>

\* a function's outcome: it returns a list of messages or raises
Return(msgs) == [raised |-> FALSE, val |-> msgs]
Raise == [raised |-> TRUE, val |-> <<>>]

ERROR_MARK == <<"[", "ERROR", "]">>
WARNING_MARK == <<"[", "WARNING", "]">>

\* lines 23-24
REQUIRED_NAME_ONLY == << <<"name">> >>
REQUIRED_DEVCONTAINER_FIELDS == << <<"name">>, <<"image">> >>

\* a list comprehension: the list with every element evaluated once
AsList(f) == <<>> \o f

RECURSIVE Concat(_)
Concat(ss) == IF ss = <<>> THEN <<>> ELSE Head(ss) \o Concat(Tail(ss))

(***************************************************************************)
(* validate_vscode_settings                                                *)
(***************************************************************************)
CHECK_ON_SAVE == <<"rust-analyzer.", "checkOnSave">>

validate_vscode_settings(vscode_config) ==
    IF vscode_config.t # "dict"
    THEN << <<"vscode customization must be a dictionary">> >>
    ELSE LET settings == Get(vscode_config, <<"settings">>, EmptyDict)
         IN IF settings.t # "dict"
            THEN << <<"vscode.settings must be a dictionary">> >>
            ELSE IF HasKey(settings, CHECK_ON_SAVE)
                    /\ Lookup(settings, CHECK_ON_SAVE).t = "bool"
                 THEN << ERROR_MARK \o
                         <<" DEPRECATED: rust-analyzer.checkOnSave as boolean",
                           "\n    Found: ", "\"", "rust-analyzer.", "checkOnSave", "\"", ":", " ",
                           IF Lookup(settings, CHECK_ON_SAVE).b THEN "true" ELSE "false",
                           "\n    Replace with: ...",
                           "\n    Reason: Boolean syntax deprecated since 2023-06-01">> >>
                 ELSE <<>>

(***************************************************************************)
(* validate_devcontainer_structure                                         *)
(***************************************************************************)
MissingMsg(field) == <<"Missing required field: '">> \o field \o <<"'">>
NameMsg == <<"Field 'name' must be a non-empty string">>
ImageEmptyMsg == <<"Field 'image' must be a non-empty string">>
ImageFormatMsg(image) ==
    <<"Field 'image' appears to be invalid Docker image format: ">> \o image
CustomizationsMsg == <<"Field 'customizations' must be a dictionary">>

\* lines 124-127
MissingErrors(cfg) ==
    Concat([i \in 1..Len(REQUIRED_DEVCONTAINER_FIELDS) |->
              IF PyIn(REQUIRED_DEVCONTAINER_FIELDS[i], cfg)
              THEN <<>>
              ELSE << MissingMsg(REQUIRED_DEVCONTAINER_FIELDS[i]) >>])

\* lines 129-132
NameErrors(cfg) ==
    IF HasKey(cfg, <<"name">>)
       /\ LET name == Lookup(cfg, <<"name">>)
          IN name.t # "str" \/ StripIsEmpty(name.s)
    THEN << NameMsg >>
    ELSE <<>>

\* the test of line 139
ImageFormatBadOr(image) == ~Contains(image, <<":">>) \/ ~Contains(image, <<"/">>)
ImageFormatBad(image) == ~Contains(image, <<":">>) /\ ~Contains(image, <<"/">>)

\* lines 134-140
ImageErrors(cfg) ==
    IF ~HasKey(cfg, <<"image">>) THEN <<>>
    ELSE LET image == Lookup(cfg, <<"image">>)
         IN IF image.t # "str" \/ StripIsEmpty(image.s)
            THEN << ImageEmptyMsg >>
            ELSE IF ImageFormatBad(image.s)
                 THEN << ImageFormatMsg(image.s) >>
                 ELSE <<>>

\* lines 142-154
CustomizationsErrors(cfg) ==
    IF ~HasKey(cfg, <<"customizations">>) THEN <<>>
    ELSE LET customizations == Lookup(cfg, <<"customizations">>)
         IN IF customizations.t # "dict"
            THEN << CustomizationsMsg >>
            ELSE IF HasKey(customizations, <<"vscode">>)
                 THEN validate_vscode_settings(Lookup(customizations, <<"vscode">>))
                 ELSE <<>>

\* `config` is whatever json.load returned.  `field not in config` raises
\* TypeError on None, bool and numbers; on a str or a list the membership
\* tests work but config["name"] (and the like) raises TypeError.
validate_devcontainer_structure(cfg) ==
    IF InRaises(cfg) THEN Raise
    ELSE IF cfg.t # "dict"
         THEN IF PyIn(<<"name">>, cfg) \/ PyIn(<<"image">>, cfg)
                 \/ PyIn(<<"customizations">>, cfg)
              THEN Raise
              ELSE Return(MissingErrors(cfg))
         ELSE Return(MissingErrors(cfg) \o NameErrors(cfg) \o ImageErrors(cfg)
                     \o CustomizationsErrors(cfg))

(***************************************************************************)
(* check_deprecated_patterns: the flattener extract_deprecated and the     *)
(* matcher                                                                 *)
(***************************************************************************)
DEPRECATED_PATTERNS == <<"deprecatedPatterns">>

\* {"name": ..., "category": ..., **pattern_info}: later keys overwrite in place
RECURSIVE DictMerge(_, _)
DictMerge(base, extra) ==
    IF extra = <<>> THEN base
    ELSE LET e == Head(extra)
             merged == IF \E i \in 1..Len(base) : base[i].k = e.k
                       THEN [i \in 1..Len(base) |->
                               IF base[i].k = e.k THEN e ELSE base[i]]
                       ELSE Append(base, e)
         IN DictMerge(merged, Tail(extra))

\* line 75
EntryIsRule(pattern_info) == pattern_info.t = "dict"

\* lines 74-80: the records appended for one deprecatedPatterns map
OwnRules(patterns, category_path) ==
    Concat([i \in 1..Len(patterns.kv) |->
              IF EntryIsRule(patterns.kv[i].v)
              THEN << JDict(DictMerge(<< KV(<<"name">>, JStr(patterns.kv[i].k)),
                                         KV(<<"category">>, JStr(category_path)) >>,
                                      patterns.kv[i].v.kv)) >>
              ELSE <<>>])

\* line 82
DescendsNever(key) == FALSE
Descends(key) == key # DEPRECATED_PATTERNS

\* line 83
NewPath(category_path, key) ==
    IF category_path # <<>> THEN category_path \o <<".">> \o key ELSE key

\* lines 71-84.  data["deprecatedPatterns"].items() raises AttributeError
\* when the value is not a dict.
RECURSIVE extract_deprecated(_, _)
extract_deprecated(data, category_path) ==
    IF data.t # "dict" THEN Return(<<>>)
    ELSE IF HasKey(data, DEPRECATED_PATTERNS)
            /\ Lookup(data, DEPRECATED_PATTERNS).t # "dict"
         THEN Raise
         ELSE LET own == IF HasKey(data, DEPRECATED_PATTERNS)
                         THEN OwnRules(Lookup(data, DEPRECATED_PATTERNS), category_path)
                         ELSE <<>>
                  sub == AsList([i \in 1..Len(data.kv) |->
                            IF Descends(data.kv[i].k)
                            THEN extract_deprecated(data.kv[i].v,
                                                    NewPath(category_path, data.kv[i].k))
                            ELSE Return(<<>>)])
              IN IF \E i \in 1..Len(data.kv) : sub[i].raised
                 THEN Raise
                 ELSE Return(own \o Concat([i \in 1..Len(data.kv) |-> sub[i].val]))

\* str.upper() on the severity words
UpperTok(tok) ==
    CASE tok = "error"   -> "ERROR"
      [] tok = "warning" -> "WARNING"
      [] tok = "info"    -> "INFO"
      [] OTHER           -> tok
Upper(s) == [i \in 1..Len(s) |-> UpperTok(s[i])]

TruncLen == 80
\* search[:80]
Truncate(s) == SubSeq(s, 1, IF Len(s) < TruncLen THEN Len(s) ELSE TruncLen)

CHECK_ON_SAVE_TRUE == <<"checkOnSave", "\"", ":", " ", "true">>

\* lines 95-100
SearchPatterns(pattern) ==
    << pattern >> \o
    (IF Contains(pattern, CHECK_ON_SAVE_TRUE)
     THEN << <<"\"", "checkOnSave", "\"", ":", " ", "true">>,
             <<"'", "checkOnSave", "'", ":", " ", "true">> >>
     ELSE <<>>)

\* lines 102-103, 115: the variants that produce a finding.  The `break`
\* leaves the loop over the variants after the first hit.
HitsNoBreak(search_patterns, content) ==
    LET RECURSIVE Sel(_)
        Sel(i) == IF i > Len(search_patterns) THEN <<>>
                  ELSE (IF Contains(content, search_patterns[i])
                        THEN << search_patterns[i] >> ELSE <<>>) \o Sel(i + 1)
    IN Sel(1)
Hits(search_patterns, content) ==
    IF \E i \in 1..Len(search_patterns) : Contains(content, search_patterns[i])
    THEN << search_patterns[CHOOSE i \in 1..Len(search_patterns) :
                /\ Contains(content, search_patterns[i])
                /\ \A j \in 1..(i - 1) : ~Contains(content, search_patterns[j])] >>
    ELSE <<>>

\* lines 104-112
FindingMsg(deprecated, search) ==
    LET severity == Upper(Get(deprecated, <<"severity">>, JStr(<<"warning">>)).s)
        replacement == Get(deprecated, <<"replacement">>, JStr(<<"See documentation">>))
        reason == Get(deprecated, <<"reason">>, JStr(<<>>))
    IN <<"[">> \o severity \o <<"]", " Deprecated pattern found: ">>
       \o PyStr(Lookup(deprecated, <<"name">>))
       \o (IF Truthy(reason) THEN <<"\n    Reason: ">> \o PyStr(reason) ELSE <<>>)
       \o <<"\n    Found: ">> \o Truncate(search) \o <<"...">>
       \o <<"\n    Replace with: ">> \o PyStr(replacement)

\* lines 89-115 for one flattened rule.  A truthy pattern that is not a str
\* raises TypeError in the `in` tests; a severity that is not a str raises
\* AttributeError on .upper() once a variant has matched.
MatchRule(deprecated, content) ==
    LET pattern == Get(deprecated, <<"pattern">>, JStr(<<>>))
    IN IF ~Truthy(pattern) THEN Return(<<>>)
       ELSE IF pattern.t # "str" THEN Raise
       ELSE LET hits == Hits(SearchPatterns(pattern.s), content)
            IN IF hits = <<>> THEN Return(<<>>)
               ELSE IF Get(deprecated, <<"severity">>, JStr(<<"warning">>)).t # "str"
                    THEN Raise
                    ELSE Return([i \in 1..Len(hits) |-> FindingMsg(deprecated, hits[i])])

\* lines 89-117
MatchAll(rules, content) ==
    LET out == AsList([i \in 1..Len(rules) |-> MatchRule(rules[i], content)])
    IN IF \E i \in 1..Len(rules) : out[i].raised
       THEN Raise
       ELSE Return(Concat([i \in 1..Len(rules) |-> out[i].val]))

\* lines 61-117
check_deprecated_patterns(content, intel) ==
    IF ~Truthy(intel) \/ ~HasKey(intel, <<"intelligence">>)
    THEN Return(<<>>)
    ELSE LET ex == extract_deprecated(Get(intel, <<"intelligence">>, EmptyDict), <<>>)
         IN IF ex.raised THEN Raise ELSE MatchAll(ex.val, content)

(***************************************************************************)
(* load_framework_intelligence, validate_json_file and the files on disk   *)
(***************************************************************************)
\* lines 27-46.  A document that is not a dict makes intelligence.get raise
\* AttributeError inside the try block, which `except Exception` catches.
load_framework_default(rf) ==
    IF rf.status = "ok" /\ rf.doc.t = "dict" THEN rf.doc
    ELSE JDict(<< KV(<<"intelligence">>, JDict(<< KV(DEPRECATED_PATTERNS,
            JDict(<< KV(<<"builtin">>, JDict(<< KV(<<"pattern">>, JStr(<<"{">>)) >>)) >>)) >>)) >>)
load_framework_intelligence(rf) ==
    IF rf.status = "absent" THEN EmptyDict
    ELSE IF rf.status \in {"malformed", "unreadable"} THEN EmptyDict
    ELSE IF rf.doc.t # "dict" THEN EmptyDict
    ELSE rf.doc

\* lines 49-58
validate_json_lenient(file) ==
    [is_valid |-> TRUE, json_error |-> <<>>, content |-> file.config]
validate_json_file(file) ==
    CASE file.status = "ok" ->
           [is_valid |-> TRUE, json_error |-> <<>>, content |-> file.config]
      [] file.status = "malformed" ->
           [is_valid |-> FALSE, json_error |-> <<"Invalid JSON: ", "<e>">>, content |-> JNull]
      [] OTHER ->
           [is_valid |-> FALSE, json_error |-> <<"Error reading file: ", "<e>">>, content |-> JNull]

\* the text json.load reads a value from (json.dumps layout)
RECURSIVE Dumps(_)
Dumps(v) ==
    CASE v.t = "null" -> <<"null">>
      [] v.t = "bool" -> IF v.b THEN <<"true">> ELSE <<"false">>
      [] v.t = "num"  -> <<"<num>">>
      [] v.t = "str"  -> <<"\"">> \o v.s \o <<"\"">>
      [] v.t = "list" ->
           <<"[">> \o Concat([i \in 1..Len(v.items) |->
                         (IF i > 1 THEN <<",", " ">> ELSE <<>>) \o Dumps(v.items[i])])
           \o <<"]">>
      [] v.t = "dict" ->
           <<"{">> \o Concat([i \in 1..Len(v.kv) |->
                         (IF i > 1 THEN <<",", " ">> ELSE <<>>)
                         \o <<"\"">> \o v.kv[i].k \o <<"\"", ":", " ">> \o Dumps(v.kv[i].v)])
           \o <<"}">>

\* a devcontainer file on disk
JsonFile(v) == [status |-> "ok", config |-> v, raw |-> Dumps(v)]
BadJsonFile == [status |-> "malformed", config |-> JNull, raw |-> <<"{", "\"", "name", "\"">>]
UnreadableFile == [status |-> "unreadable", config |-> JNull, raw |-> <<>>]

(***************************************************************************)
(* validate_tailwind_config and validate_eslint_config                     *)
(***************************************************************************)
TailwindV3Msg == WARNING_MARK \o <<" Tailwind 3 configuration detected", "\n    ...">>
TailwindPurgeMsg == ERROR_MARK \o <<" Deprecated 'purge' option found", "\n    ...">>
\* f"Error reading Tailwind config: {e}" for an OSError
TailwindReadMsg == <<"Error reading Tailwind config: ", "[", "Errno 13", "]", " Permission denied">>

\* lines 194-219
validate_tailwind_config(file) ==
    IF file.status # "ok" THEN << TailwindReadMsg >>
    ELSE (IF Contains(file.content, <<"module.exports">>)
             /\ Contains(file.content, <<"theme:">>)
          THEN << TailwindV3Msg >> ELSE <<>>)
         \o (IF Contains(file.content, <<"purge:">>)
             THEN << TailwindPurgeMsg >> ELSE <<>>)

legacy_files == {".eslintrc", ".eslintrc.js", ".eslintrc.json", ".eslintrc.yaml", ".eslintrc.yml"}
EslintLegacyMsg(filename) ==
    WARNING_MARK \o <<" Legacy ESLint config format detected: ", filename, "\n    ...">>

\* lines 222-237
validate_eslint_config(filename) ==
    IF filename \in legacy_files THEN << EslintLegacyMsg(filename) >> ELSE <<>>

(***************************************************************************)
(* The aggregation loops of main()                                         *)
(***************************************************************************)
HasError(msg) == Contains(msg, ERROR_MARK)
HasWarning(msg) == Contains(msg, WARNING_MARK)

\* lines 332-341
DevIsError(msg) == HasError(msg) \/ ~HasWarning(msg)
DevIsWarning(msg) == ~HasError(msg) /\ HasWarning(msg)
\* lines 361-367 and 382-388
OtherIsError(msg) == HasError(msg)
OtherIsWarning(msg) == ~HasError(msg)

DevErrorCount(msgs) == Cardinality({i \in 1..Len(msgs) : DevIsError(msgs[i])})
DevWarningCount(msgs) == Cardinality({i \in 1..Len(msgs) : DevIsWarning(msgs[i])})
OtherErrorCount(msgs) == Cardinality({i \in 1..Len(msgs) : OtherIsError(msgs[i])})
OtherWarningCount(msgs) == Cardinality({i \in 1..Len(msgs) : OtherIsWarning(msgs[i])})

\* lines 331, 360, 381: `if all_errors:` / `if errors:`
HasOnlyErrors(msgs) == \E i \in 1..Len(msgs) : HasError(msgs[i])
HasFindings(msgs) == msgs # <<>>

\* lines 402-407
ExitCodeStrict(n_errors) == IF n_errors = 0 /\ total_warnings = 0 THEN 0 ELSE 1
ExitCode(n_errors) == IF n_errors = 0 THEN 0 ELSE 1

(***************************************************************************)
(* Inputs: what can be on disk                                             *)
(***************************************************************************)
RECURSIVE SeqsUpTo(_, _)
SeqsUpTo(S, n) ==
    IF n = 0 THEN { <<>> }
    ELSE LET shorter == SeqsUpTo(S, n - 1)
         IN shorter \cup { Append(q, x) : q \in shorter, x \in S }

Obj(pairs) == JDict(pairs)
VscodeSettings(v) ==
    Obj(<< KV(<<"vscode">>, Obj(<< KV(<<"settings">>, Obj(<< KV(CHECK_ON_SAVE, v) >>)) >>)) >>)

\* rule entries of a deprecatedPatterns map
RuleCheckOnSave ==
    Obj(<< KV(<<"pattern">>, JStr(<<"\"", "rust-analyzer.", "checkOnSave", "\"", ":", " ", "true">>)),
           KV(<<"severity">>, JStr(<<"error">>)),
           KV(<<"replacement">>, JStr(<<"{ enable: true }">>)),
           KV(<<"reason">>, JStr(<<"Boolean syntax deprecated">>)) >>)
RuleUbuntuTag ==
    Obj(<< KV(<<"pattern">>, JStr(<<"ubuntu", ":">>)) >>)
RuleQuoting ==
    Obj(<< KV(<<"pattern">>, JStr(CHECK_ON_SAVE_TRUE)),
           KV(<<"severity">>, JStr(<<"warning">>)) >>)
RuleNoPattern ==
    Obj(<< KV(<<"severity">>, JStr(<<"error">>)) >>)

IntelDoc(tree) ==
    Obj(<< KV(<<"version">>, JStr(<<"1.0">>)), KV(<<"intelligence">>, tree) >>)

\* rules files of the driver runs
DriverTree ==
    Obj(<< KV(<<"rust">>, Obj(<< KV(DEPRECATED_PATTERNS,
                                    Obj(<< KV(<<"checkOnSaveBool">>, RuleCheckOnSave) >>)) >>)),
           KV(DEPRECATED_PATTERNS, Obj(<< KV(<<"ubuntuTag">>, RuleUbuntuTag),
                                          KV(<<"note">>, JStr(<<"todo">>)) >>)) >>)
RulesFiles ==
    { [status |-> "absent", doc |-> JNull],
      [status |-> "malformed", doc |-> JNull],
      [status |-> "unreadable", doc |-> JNull],
      [status |-> "ok", doc |-> JList(<<>>)],
      [status |-> "ok", doc |-> Obj(<< KV(<<"version">>, JStr(<<"1.0">>)) >>)],
      [status |-> "ok", doc |-> IntelDoc(DriverTree)] }

\* devcontainer files of the driver runs
DevFiles ==
    { BadJsonFile, UnreadableFile,
      JsonFile(JNull), JsonFile(JNum(3)), JsonFile(JStr(<<"x">>)),
      JsonFile(JStr(<<"my ", "name">>)),
      JsonFile(JList(<<>>)), JsonFile(JList(<< JStr(<<"image">>) >>)),
      JsonFile(Obj(<<>>)),
      JsonFile(Obj(<< KV(<<"name">>, JStr(<<"x">>)),
                      KV(<<"image">>, JStr(<<"debian", ":", "12">>)) >>)),
      JsonFile(Obj(<< KV(<<"name">>, JStr(<<"x">>)),
                      KV(<<"image">>, JStr(<<"ubuntu", ":", "22.04">>)) >>)),
      JsonFile(Obj(<< KV(<<"image">>, JStr(<<"notanimage">>)) >>)),
      JsonFile(Obj(<< KV(<<"name">>, JStr(<<" ">>)),
                      KV(<<"image">>, JStr(<<"[", "WARNING", "]">>)) >>)),
      JsonFile(Obj(<< KV(<<"name">>, JStr(<<"x">>)),
                      KV(<<"image">>, JStr(<<"debian", "/", "12">>)),
                      KV(<<"customizations">>, VscodeSettings(JBool(TRUE))) >>)),
      JsonFile(Obj(<< KV(<<"name">>, JStr(<<"x">>)),
                      KV(<<"image">>, JStr(<<"ubuntu", ":", "22.04">>)),
                      KV(<<"customizations">>, JList(<<>>)) >>)) }

TailwindTokens == {"module.exports", "theme:", "purge:"}
TailwindFiles ==
    { [status |-> "unreadable", content |-> <<>>] }
    \cup { [status |-> "ok", content |-> c] : c \in SeqsUpTo(TailwindTokens, MaxTailwindLen) }

\* root-level ESLint file names, in sorted order
EslintNames == <<".eslintrc", ".eslintrc.json", "eslint.config.js">>
RECURSIVE SortedSeq(_)
SortedSeq(S) ==
    IF S = {} THEN <<>>
    ELSE LET m == CHOOSE x \in S : \A y \in S : x <= y
         IN << EslintNames[m] >> \o SortedSeq(S \ {m})

\* lines 240-277: sorted, duplicate-free path lists per kind
DiscoveredLists ==
    { [devcontainer |-> [i \in 1..nd |-> i],
       tailwind |-> [i \in 1..nt |-> i],
       eslint |-> SortedSeq(S)] :
      nd \in 0..MaxDevFiles, nt \in 0..MaxTailwindFiles,
      S \in SUBSET (1..Len(EslintNames)) }

(***************************************************************************)
(* main()                                                                  *)
(***************************************************************************)
NoFile == [status |-> "none", config |-> JNull, raw |-> <<>>]
NoLists == [devcontainer |-> <<>>, tailwind |-> <<>>, eslint |-> <<>>]

LocalsUnset ==
    /\ devcontainer_file = NoFile
    /\ is_valid = FALSE
    /\ config = JNull
    /\ raw_content = <<>>
    /\ structure_errors = <<>>
    /\ deprecated_errors = <<>>
    /\ all_errors = <<>>
    /\ errors = <<>>
    /\ all_deprecated = <<>>

Init ==
    /\ pc = "load"
    /\ rules_file \in RulesFiles
    /\ intelligence = EmptyDict
    /\ config_files = NoLists
    /\ idx = 0
    /\ total_errors = 0
    /\ total_warnings = 0
    /\ total_validated = 0
    /\ exit_status = -1
    /\ LocalsUnset

\* line 290
LoadIntelligence ==
    /\ pc = "load"
    /\ intelligence' = load_framework_intelligence(rules_file)
    /\ pc' = "discover"
    /\ UNCHANGED <<rules_file, config_files, idx, total_errors, total_warnings,
                   total_validated, devcontainer_file, is_valid, config, raw_content,
                   structure_errors, deprecated_errors, all_errors, errors,
                   all_deprecated, exit_status>>

\* lines 295-299
Discover ==
    /\ pc = "discover"
    /\ config_files' \in DiscoveredLists
    /\ total_errors' = 0
    /\ total_warnings' = 0
    /\ total_validated' = 0
    /\ idx' = 0
    /\ pc' = "devcontainer"
    /\ UNCHANGED <<rules_file, intelligence, devcontainer_file, is_valid, config,
                   raw_content, structure_errors, deprecated_errors, all_errors,
                   errors, all_deprecated, exit_status>>

\* an uncaught exception: traceback, exit status 1, no summary
Crash ==
    /\ pc' = "crashed"
    /\ exit_status' = 1

\* lines 306-344: one iteration of the devcontainer loop
DevcontainerFile ==
    /\ pc = "devcontainer"
    /\ idx < Len(config_files.devcontainer)
    /\ \E file \in DevFiles :
         LET parsed == validate_json_file(file)
             structure == validate_devcontainer_structure(parsed.content)
             deprecated == check_deprecated_patterns(file.raw, intelligence)
             found == structure.val \o deprecated.val
         IN /\ devcontainer_file' = file
            /\ is_valid' = parsed.is_valid
            /\ config' = parsed.content
            /\ IF ~parsed.is_valid
               THEN /\ total_errors' = total_errors + 1
                    /\ idx' = idx + 1
                    /\ UNCHANGED <<pc, exit_status, total_warnings, total_validated,
                                   raw_content, structure_errors, deprecated_errors,
                                   all_errors>>
               ELSE IF structure.raised
               THEN /\ Crash
                    /\ UNCHANGED <<idx, total_errors, total_warnings, total_validated,
                                   raw_content, structure_errors, deprecated_errors,
                                   all_errors>>
               ELSE IF deprecated.raised
               THEN /\ Crash
                    /\ structure_errors' = structure.val
                    /\ raw_content' = file.raw
                    /\ UNCHANGED <<idx, total_errors, total_warnings, total_validated,
                                   deprecated_errors, all_errors>>
               ELSE /\ structure_errors' = structure.val
                    /\ raw_content' = file.raw
                    /\ deprecated_errors' = deprecated.val
                    /\ all_errors' = found
                    /\ IF HasFindings(found)
                       THEN /\ total_errors' = total_errors + DevErrorCount(found)
                            /\ total_warnings' = total_warnings + DevWarningCount(found)
                            /\ UNCHANGED total_validated
                       ELSE /\ total_validated' = total_validated + 1
                            /\ UNCHANGED <<total_errors, total_warnings>>
                    /\ idx' = idx + 1
                    /\ UNCHANGED <<pc, exit_status>>
    /\ UNCHANGED <<rules_file, intelligence, config_files, errors, all_deprecated>>

\* the devcontainer loop is exhausted; its locals are dead from here on
DevcontainerLoopEnd ==
    /\ pc = "devcontainer"
    /\ idx = Len(config_files.devcontainer)
    /\ pc' = "tailwind"
    /\ idx' = 0
    /\ devcontainer_file' = NoFile
    /\ is_valid' = FALSE
    /\ config' = JNull
    /\ raw_content' = <<>>
    /\ structure_errors' = <<>>
    /\ deprecated_errors' = <<>>
    /\ all_errors' = <<>>
    /\ UNCHANGED <<rules_file, intelligence, config_files, total_errors, total_warnings,
                   total_validated, errors, all_deprecated, exit_status>>

\* lines 351-370: one iteration of the Tailwind loop
TailwindFile ==
    /\ pc = "tailwind"
    /\ idx < Len(config_files.tailwind)
    /\ \E file \in TailwindFiles :
         LET found == validate_tailwind_config(file)
         IN /\ errors' = found
            /\ IF HasFindings(found)
               THEN /\ total_errors' = total_errors + OtherErrorCount(found)
                    /\ total_warnings' = total_warnings + OtherWarningCount(found)
                    /\ UNCHANGED total_validated
               ELSE /\ total_validated' = total_validated + 1
                    /\ UNCHANGED <<total_errors, total_warnings>>
    /\ idx' = idx + 1
    /\ UNCHANGED <<pc, rules_file, intelligence, config_files, devcontainer_file,
                   is_valid, config, raw_content, structure_errors, deprecated_errors,
                   all_errors, all_deprecated, exit_status>>

TailwindLoopEnd ==
    /\ pc = "tailwind"
    /\ idx = Len(config_files.tailwind)
    /\ pc' = "eslint"
    /\ idx' = 0
    /\ errors' = <<>>
    /\ UNCHANGED <<rules_file, intelligence, config_files, total_errors, total_warnings,
                   total_validated, devcontainer_file, is_valid, config, raw_content,
                   structure_errors, deprecated_errors, all_errors, all_deprecated,
                   exit_status>>

\* lines 377-391: one iteration of the ESLint loop
EslintFile ==
    /\ pc = "eslint"
    /\ idx < Len(config_files.eslint)
    /\ LET found == validate_eslint_config(config_files.eslint[idx + 1])
       IN /\ errors' = found
          /\ IF HasFindings(found)
             THEN /\ total_errors' = total_errors + OtherErrorCount(found)
                  /\ total_warnings' = total_warnings + OtherWarningCount(found)
                  /\ UNCHANGED total_validated
             ELSE /\ total_validated' = total_validated + 1
                  /\ UNCHANGED <<total_errors, total_warnings>>
    /\ idx' = idx + 1
    /\ UNCHANGED <<pc, rules_file, intelligence, config_files, devcontainer_file,
                   is_valid, config, raw_content, structure_errors, deprecated_errors,
                   all_errors, all_deprecated, exit_status>>

EslintLoopEnd ==
    /\ pc = "eslint"
    /\ idx = Len(config_files.eslint)
    /\ pc' = "summary"
    /\ errors' = <<>>
    /\ UNCHANGED <<rules_file, intelligence, config_files, idx, total_errors,
                   total_warnings, total_validated, devcontainer_file, is_valid, config,
                   raw_content, structure_errors, deprecated_errors, all_errors,
                   all_deprecated, exit_status>>

\* lines 393-407
Summary ==
    /\ pc = "summary"
    /\ exit_status' = ExitCode(total_errors)
    /\ pc' = "done"
    /\ UNCHANGED <<rules_file, intelligence, config_files, idx, total_errors,
                   total_warnings, total_validated, devcontainer_file, is_valid, config,
                   raw_content, structure_errors, deprecated_errors, all_errors, errors,
                   all_deprecated>>

Next ==
    \/ LoadIntelligence
    \/ Discover
    \/ DevcontainerFile
    \/ DevcontainerLoopEnd
    \/ TailwindFile
    \/ TailwindLoopEnd
    \/ EslintFile
    \/ EslintLoopEnd
    \/ Summary

Spec == Init /\ [][Next]_vars

(***************************************************************************)
(* validate_devcontainer_structure applied to bounded inputs               *)
(***************************************************************************)
ImageChars == {"ubuntu", ":", "/", " "}
NameValues == { JStr(<<"x">>), JStr(<<" ">>), JStr(<<>>), JNum(1) }
ImageValues ==
    { JNum(0), JNull, JList(<< JStr(<<":">>) >>) }
    \cup { JStr(q) : q \in SeqsUpTo(ImageChars, MaxImageLen) }
CustomizationsValues ==
    { JList(<<>>), Obj(<<>>),
      Obj(<< KV(<<"vscode">>, JStr(<<"x">>)) >>),
      Obj(<< KV(<<"vscode">>, Obj(<< KV(<<"settings">>, JNull) >>)) >>),
      VscodeSettings(JBool(TRUE)),
      VscodeSettings(Obj(<< KV(<<"enable">>, JBool(TRUE)) >>)) }

Optional(key, values) == { <<>> } \cup { << KV(key, v) >> : v \in values }

StructureConfigs ==
    { Obj(n \o i \o c) : n \in Optional(<<"name">>, NameValues),
                         i \in Optional(<<"image">>, ImageValues),
                         c \in Optional(<<"customizations">>, CustomizationsValues) }
    \cup { JNull, JBool(TRUE), JNum(3), JStr(<<"x">>), JStr(<<"name">>),
           JList(<<>>), JList(<< JStr(<<"customizations">>) >>) }

InitStructure ==
    /\ pc = "call_structure"
    /\ config \in StructureConfigs
    /\ rules_file = [status |-> "absent", doc |-> JNull]
    /\ intelligence = EmptyDict
    /\ config_files = NoLists
    /\ idx = 0
    /\ total_errors = 0
    /\ total_warnings = 0
    /\ total_validated = 0
    /\ exit_status = -1
    /\ devcontainer_file = NoFile
    /\ is_valid = TRUE
    /\ raw_content = <<>>
    /\ structure_errors = <<>>
    /\ deprecated_errors = <<>>
    /\ all_errors = <<>>
    /\ errors = <<>>
    /\ all_deprecated = <<>>

\* line 322: structure_errors = validate_devcontainer_structure(config, ...)
CallValidateStructure ==
    /\ pc = "call_structure"
    /\ LET structure == validate_devcontainer_structure(config)
       IN /\ structure_errors' = structure.val
          /\ pc' = IF structure.raised THEN "raised" ELSE "returned"
    /\ UNCHANGED <<rules_file, intelligence, config_files, idx, total_errors,
                   total_warnings, total_validated, devcontainer_file, is_valid, config,
                   raw_content, deprecated_errors, all_errors, errors, all_deprecated,
                   exit_status>>

NextStructure == CallValidateStructure

SpecStructure == InitStructure /\ [][NextStructure]_vars

(***************************************************************************)
(* check_deprecated_patterns applied to bounded rule trees and contents    *)
(***************************************************************************)
EntryName(i) == <<"p", ToString(i)>>
PatternMaps(entries, n) ==
    { JDict([i \in 1..Len(q) |-> KV(EntryName(i), q[i])]) :
        q \in SeqsUpTo(entries, n) }

\* entries of both shapes: a rule object and a bare string
ShapeEntries == { RuleUbuntuTag, JStr(<<"todo">>) }

\* chains of categories of depth <= d, each level with or without a map
RECURSIVE Trees(_)
Trees(d) ==
    LET own == { <<>> } \cup { << KV(DEPRECATED_PATTERNS, m) >> : m \in PatternMaps(ShapeEntries, MaxEntries) }
        leaves == { JDict(o) : o \in own }
    IN IF d = 0 THEN leaves
       ELSE LET below == Trees(d - 1)
            IN leaves \cup { JDict(o \o << KV(<<"cat">>, c) >>) : o \in own, c \in below }

\* trees whose shape the flattener has to cope with
OddTrees ==
    { \* deprecatedPatterns is not a map
      Obj(<< KV(DEPRECATED_PATTERNS, JList(<< RuleUbuntuTag >>)) >>),
      \* a map inside a list, and one inside an entry of another map
      Obj(<< KV(<<"cat">>, JList(<< Obj(<< KV(DEPRECATED_PATTERNS,
                                              Obj(<< KV(EntryName(1), RuleUbuntuTag) >>)) >>) >>)) >>),
      Obj(<< KV(DEPRECATED_PATTERNS,
                Obj(<< KV(EntryName(1),
                          Obj(<< KV(<<"pattern">>, JStr(<<"ubuntu">>)),
                                 KV(DEPRECATED_PATTERNS,
                                    Obj(<< KV(EntryName(2), RuleUbuntuTag) >>)) >>)) >>)) >>),
      \* a category listed before the node's own map
      Obj(<< KV(<<"cat">>, Obj(<< KV(DEPRECATED_PATTERNS,
                                      Obj(<< KV(EntryName(1), RuleCheckOnSave) >>)) >>)),
             KV(DEPRECATED_PATTERNS, Obj(<< KV(EntryName(2), RuleUbuntuTag),
                                            KV(EntryName(3), RuleQuoting) >>)) >>) }

RichEntries ==
    { RuleCheckOnSave, RuleUbuntuTag, RuleQuoting, RuleNoPattern,
      Obj(<< KV(<<"pattern">>, JNum(7)) >>),
      Obj(<< KV(<<"pattern">>, JStr(<<"ubuntu">>)), KV(<<"severity">>, JNum(2)),
             KV(<<"name">>, JStr(<<"renamed">>)) >>) }

MatchTrees ==
    { Obj(<< KV(DEPRECATED_PATTERNS, m) >>) : m \in PatternMaps(RichEntries, MaxRules) }

PatternContents ==
    { Dumps(Obj(<< KV(<<"name">>, JStr(<<"x">>)),
                   KV(<<"image">>, JStr(<<"debian", ":", "12">>)) >>)),
      Dumps(Obj(<< KV(<<"image">>, JStr(<<"ubuntu", ":", "22.04">>)),
                   KV(<<"customizations">>, VscodeSettings(JBool(TRUE))) >>)),
      Dumps(Obj(<< KV(<<"image">>, JStr(<<"ubuntu", ":", "22.04">>)),
                   KV(<<"settings">>, Obj(<< KV(<<"checkOnSave">>, JBool(TRUE)) >>)) >>)),
      <<"{", "'", "checkOnSave", "'", ":", " ", "true", "}">> }

PatternInputs ==
    { [intel |-> IntelDoc(tr), content |-> c] :
        tr \in Trees(MaxDepth) \cup OddTrees,
        c \in { Dumps(Obj(<< KV(<<"image">>, JStr(<<"ubuntu", ":", "22.04">>)) >>)) } }
    \cup { [intel |-> IntelDoc(tr), content |-> c] :
             tr \in MatchTrees \cup OddTrees, c \in PatternContents }
    \cup { [intel |-> d, content |-> c] :
             d \in { EmptyDict, Obj(<< KV(<<"version">>, JStr(<<"1.0">>)) >>) },
             c \in PatternContents }

InitPatterns ==
    /\ pc = "call_patterns"
    /\ \E inp \in PatternInputs :
         /\ intelligence = inp.intel
         /\ raw_content = inp.content
    /\ rules_file = [status |-> "ok", doc |-> intelligence]
    /\ config_files = NoLists
    /\ idx = 0
    /\ total_errors = 0
    /\ total_warnings = 0
    /\ total_validated = 0
    /\ exit_status = -1
    /\ devcontainer_file = NoFile
    /\ is_valid = TRUE
    /\ config = JNull
    /\ structure_errors = <<>>
    /\ deprecated_errors = <<>>
    /\ all_errors = <<>>
    /\ errors = <<>>
    /\ all_deprecated = <<>>

\* line 327: deprecated_errors = check_deprecated_patterns(raw_content, ...)
CallCheckDeprecated ==
    /\ pc = "call_patterns"
    /\ LET ex == extract_deprecated(Get(intelligence, <<"intelligence">>, EmptyDict), <<>>)
           deprecated == check_deprecated_patterns(raw_content, intelligence)
       IN /\ all_deprecated' = IF ~Truthy(intelligence) \/ ~HasKey(intelligence, <<"intelligence">>)
                               THEN <<>> ELSE ex.val
          /\ deprecated_errors' = deprecated.val
          /\ pc' = IF deprecated.raised THEN "raised" ELSE "returned"
    /\ UNCHANGED <<rules_file, intelligence, config_files, idx, total_errors,
                   total_warnings, total_validated, devcontainer_file, is_valid, config,
                   raw_content, structure_errors, all_errors, errors, exit_status>>

NextPatterns == CallCheckDeprecated

SpecPatterns == InitPatterns /\ [][NextPatterns]_vars

(***************************************************************************)
(* Properties                                                              *)
(***************************************************************************)
DevStep == pc = "devcontainer" /\ idx' = idx + 1
TailwindStep == pc = "tailwind" /\ idx' = idx + 1
EslintStep == pc = "eslint" /\ idx' = idx + 1
Discovered ==
    Len(config_files.devcontainer) + Len(config_files.tailwind) + Len(config_files.eslint)
Markerless(msg) == ~HasError(msg) /\ ~HasWarning(msg)

\* C1: a run that reaches the summary exits with status 0 exactly when the
\* error counter is zero and with status 1 otherwise, whatever the warning
\* counter holds.
C1_ExitStatus ==
    pc = "done" => /\ exit_status \in {0, 1}
                   /\ exit_status = 0 <=> total_errors = 0
C1_Witness ==
    pc = "done" /\ total_errors = 0 /\ total_warnings > 0 /\ exit_status = 0

\* C2: no run ends early with an uncaught exception raised by a validator;
\* every run goes through all files to the summary.
C2_NothingFatal == pc # "crashed"

\* the tally of one file's messages with marker-less messages as errors
C3_Tally(msgs) ==
    /\ total_errors' = total_errors
         + Cardinality({i \in 1..Len(msgs) : HasError(msgs[i]) \/ Markerless(msgs[i])})
    /\ total_warnings' = total_warnings
         + Cardinality({i \in 1..Len(msgs) : HasWarning(msgs[i]) /\ ~HasError(msgs[i])})
\* C3: for each of the three kinds, a message with neither marker adds one
\* to the error counter and nothing to the warning counter: the errors
\* added for a file are its messages with [ERROR] or without any marker,
\* the warnings added are its messages with [WARNING] only.
C3_MarkerlessIsError ==
    [][/\ (DevStep /\ is_valid') => C3_Tally(all_errors')
       /\ TailwindStep => C3_Tally(errors')
       /\ EslintStep => C3_Tally(errors')]_vars

FormatMsgCount ==
    Cardinality({i \in 1..Len(structure_errors) :
        Head(structure_errors[i]) = "Field 'image' appears to be invalid Docker image format: "})
ImageLacksBoth(image) ==
    image.t = "str" => \A i \in 1..Len(image.s) : image.s[i] \notin {":", "/"}
ImageIsNonBlankStr(image) ==
    image.t = "str" /\ \E i \in 1..Len(image.s) : image.s[i] \notin Whitespace
\* C4 (as stated): an image value lacking both ":" and "/" gets exactly one
\* invalid-format message, a value containing either gets none.
C4_Original ==
    (pc = "returned" /\ config.t = "dict" /\ HasKey(config, <<"image">>))
    => FormatMsgCount = (IF ImageLacksBoth(Lookup(config, <<"image">>)) THEN 1 ELSE 0)
\* C4 (amended): an image value that is a string with a non-whitespace
\* character and lacks both ":" and "/" gets exactly one invalid-format
\* message; every other image value (containing either, not a string,
\* empty or all whitespace) gets none.
C4_ImageFormat ==
    (pc = "returned" /\ config.t = "dict" /\ HasKey(config, <<"image">>))
    => LET image == Lookup(config, <<"image">>)
       IN FormatMsgCount = (IF ImageIsNonBlankStr(image) /\ ImageLacksBoth(image)
                            THEN 1 ELSE 0)
C4_Witness ==
    /\ pc = "returned" /\ config.t = "dict" /\ HasKey(config, <<"image">>)
    /\ Lookup(config, <<"image">>) = JStr(<<"ubuntu", " ">>)
    /\ FormatMsgCount = 1

\* the deprecatedPatterns maps of a tree, located by their category paths
CategoryKeys == { <<"cat">> }
CategoryPaths == SeqsUpTo(CategoryKeys, MaxDepth)
RECURSIVE NodeAt(_, _)
NodeAt(node, path) ==
    IF path = <<>> THEN node
    ELSE IF node.t = "dict" /\ HasKey(node, Head(path))
         THEN NodeAt(Lookup(node, Head(path)), Tail(path))
         ELSE JNull
HasMapAt(tree, path) ==
    NodeAt(tree, path).t = "dict" /\ HasKey(NodeAt(tree, path), DEPRECATED_PATTERNS)
MapAt(tree, path) == Lookup(NodeAt(tree, path), DEPRECATED_PATTERNS)
\* the entries of the map at a path: all of them, or the objects only
EntriesAt(tree, path, objectsOnly) ==
    IF HasMapAt(tree, path) /\ MapAt(tree, path).t = "dict"
    THEN Cardinality({i \in 1..Len(MapAt(tree, path).kv) :
                        objectsOnly => MapAt(tree, path).kv[i].v.t = "dict"})
    ELSE 0
RECURSIVE SumEntries(_, _, _)
SumEntries(tree, paths, objectsOnly) ==
    IF paths = {} THEN 0
    ELSE LET path == CHOOSE q \in paths : TRUE
         IN EntriesAt(tree, path, objectsOnly)
            + SumEntries(tree, paths \ {path}, objectsOnly)
RuleTree == Lookup(intelligence, <<"intelligence">>)
Flattened ==
    /\ pc \in {"returned", "raised"}
    /\ HasKey(intelligence, <<"intelligence">>)
    /\ \A path \in CategoryPaths :
         HasMapAt(RuleTree, path) => MapAt(RuleTree, path).t = "dict"
C6_ParseFailure ==
    [][(pc = "devcontainer" /\ devcontainer_file'.status \in {"malformed", "unreadable"})
       => /\ total_errors' = total_errors + 1
          /\ total_warnings' = total_warnings
          /\ total_validated' = total_validated
          /\ UNCHANGED <<raw_content, structure_errors, deprecated_errors, all_errors>>
          /\ idx' = idx + 1
          /\ pc' = "devcontainer"]_vars
C6_Witness ==
    /\ pc = "devcontainer" /\ devcontainer_file.status = "malformed"
    /\ idx = 1 /\ idx < Len(config_files.devcontainer)
    /\ total_errors = 1 /\ total_warnings = 0 /\ total_validated = 0

RulesUnavailable == rules_file.status \in {"absent", "malformed", "unreadable"}
MissingMsgCount(field) ==
    Cardinality({i \in 1..Len(structure_errors) :
        structure_errors[i] = <<"Missing required field: '">> \o field \o <<"'">>})
AnyMissingMsgCount ==
    Cardinality({i \in 1..Len(structure_errors) :
        Head(structure_errors[i]) = "Missing required field: '"})
\* C8: for a devcontainer object, exactly one "Missing required field"
\* message for each of name and image that is absent and none for a field
\* that is present.
C8_MissingFields ==
    (pc = "returned" /\ config.t = "dict")
    => /\ \A field \in { <<"name">>, <<"image">> } :
            MissingMsgCount(field) = (IF HasKey(config, field) THEN 0 ELSE 1)
       /\ AnyMissingMsgCount =
            Cardinality({field \in { <<"name">>, <<"image">> } : ~HasKey(config, field)})
C8_Witness ==
    /\ pc = "returned" /\ config.t = "dict"
    /\ HasKey(config, <<"name">>) /\ ~HasKey(config, <<"image">>)
    /\ AnyMissingMsgCount = 1 /\ MissingMsgCount(<<"image">>) = 1

RulePattern(rule) == Get(rule, <<"pattern">>, JStr(<<>>))
RuleMatches(rule) ==
    /\ RulePattern(rule).t = "str"
    /\ RulePattern(rule).s # <<>>
    /\ \E i \in 1..Len(SearchPatterns(RulePattern(rule).s)) :
         Contains(raw_content, SearchPatterns(RulePattern(rule).s)[i])
FirstVariant(rule) ==
    LET variants == SearchPatterns(RulePattern(rule).s)
    IN variants[CHOOSE i \in 1..Len(variants) :
                  /\ Contains(raw_content, variants[i])
                  /\ \A j \in 1..(i - 1) : ~Contains(raw_content, variants[j])]
MatchingRules == {i \in 1..Len(all_deprecated) : RuleMatches(all_deprecated[i])}
Partition(msgs, parsed) ==
    \/ /\ parsed /\ msgs = <<>>
       /\ total_validated' = total_validated + 1
       /\ total_warnings' = total_warnings
       /\ total_errors' = total_errors
    \/ /\ ~parsed \/ msgs # <<>>
       /\ total_validated' = total_validated
       /\ total_warnings' >= total_warnings
       /\ total_errors' >= total_errors
       /\ (total_warnings' + total_errors') - (total_warnings + total_errors) >= 1
       /\ parsed => (total_warnings' + total_errors') - (total_warnings + total_errors) = Len(msgs)
====
